---------------------------- MODULE Spec2Model ----------------------------
(***************************************************************************)
(* Live multimodal session client: the App component (src/App.tsx) and the *)
(* session service (src/unnamed/part_001, geminiService).                  *)
(*                                                                         *)
(* One action is one task of the browser's event loop: a handler runs to   *)
(* completion and the promise reactions (microtasks) it made runnable run   *)
(* right after it, before any other handler.  `trace` holds the events of   *)
(* the last task, in execution order; its first element names the handler. *)
(***************************************************************************)
EXTENDS Integers, Sequences, FiniteSets, TLC

\* ------------------------------------------------------------------ bounds
MaxSessions == 2      \* startLiveSession calls explored
MaxPending  == 2      \* reactions queued on a pending session promise
MaxCalls    == 2      \* tool calls carried by one inbound message
MaxChunks   == 3      \* audio chunks started on the output clocks
MaxClock    == 3      \* ticks of the output clock explored
MaxDur      == 2      \* duration of an audio chunk, in clock ticks
MaxText     == 2      \* length of the running transcript

Sessions == 1..MaxSessions

AppStatus == {"IDLE", "SELECT_KEY", "REQUESTING_PERMISSIONS", "READY",
              "LISTENING", "ANALYZING", "ERROR", "QUOTA_ERROR"}

\* Classes of error message text, as the handlers' includes() tests see them.
ErrClasses == {"API key not valid", "Requested entity was not found", "quota", "other"}

VARIABLES
  \* --- App component state (useState)
  status, apiKey, stream, detectedObjects, selectedObject, transcription,
  groundingChunks,
  \* --- App component refs (useRef)
  inputAudioContextRef, scriptProcessorRef, mediaStreamSourceRef,
  transcriptionRef, isSessionActiveRef, frameIntervalRef,
  \* --- browser objects the App creates
  storedKey,      \* localStorage holds 'gemini-api-key'
  mounted,        \* the component is mounted
  permPending,    \* a getUserMedia request is pending
  timers,         \* interval timers that are set and not cleared
  tapConnected,   \* script processors connected to their destination
  srcConnected,   \* media stream sources connected to their processor
  inCtx,          \* capture AudioContext of each session: state
  \* --- service module state (geminiService)
  sessionPromise, outputAudioContext, nextStartTime, sources,
  outCtx,         \* output AudioContext of each session: state
  now,            \* currentTime of the output AudioContext in use
  \* --- the connections made by ai.live.connect
  nextSession,    \* id of the next connection
  conn,           \* socket state of each connection
  promise,        \* state of the promise connect() returned
  thens,          \* reactions queued on that promise while it is pending
  \* --- the codec, run on its own
  audioData,      \* a block of samples handed to the encoder
  pcmData,        \* the transport text the encoder made of it
  channelData,    \* the samples the decoder made of that text
  \* --- observation
  played,         \* every source started on the output clocks
  lastPlayOp,     \* the last call made to the playback scheduler
  heard,          \* transcription deltas since the start or the last turn end
  sendSeq,        \* audio blocks and image frames submitted so far
  received,       \* what each connection was handed: realtime input, close
  trace           \* events of the last task

appVars  == <<status, apiKey, stream, detectedObjects, selectedObject,
              transcription, groundingChunks>>
refVars  == <<inputAudioContextRef, scriptProcessorRef, mediaStreamSourceRef,
              transcriptionRef, isSessionActiveRef, frameIntervalRef>>
domVars  == <<storedKey, mounted, permPending, timers, tapConnected,
              srcConnected, inCtx>>
svcVars  == <<sessionPromise, outputAudioContext, nextStartTime, sources,
              outCtx, now>>
connVars == <<nextSession, conn, promise, thens>>
pcmVars  == <<audioData, pcmData, channelData>>
sendVars == <<sendSeq, received>>
vars == <<appVars, refVars, domVars, svcVars, connVars, pcmVars, played, lastPlayOp, heard,
          sendVars, trace>>

Max(a, b) == IF a >= b THEN a ELSE b

\* Did the last task run handler h ?
Ran(h) == Len(trace) > 0 /\ trace[1][1] = h

\* Index of the first event of the last task that satisfies Test, 0 if none.
FirstIdx(Test(_)) ==
  LET S == {i \in 1..Len(trace) : Test(trace[i])}
  IN  IF S = {} THEN 0 ELSE CHOOSE i \in S : \A j \in S : i <= j

\* ------------------------------------------------- session promise reactions
\* A reaction registered with sessionPromise.then(...): <<"close">>,
\* <<"tool", id>>, <<"audio", n>> or <<"image">>.

\* What session.close() / session.send...() do to the socket state.
AfterItem(item, c) ==
  IF item[1] = "close" /\ c \in {"open", "failing"} THEN "closing" ELSE c

RECURSIVE FinalConn(_, _)
FinalConn(items, c) ==
  IF items = <<>> THEN c ELSE FinalConn(Tail(items), AfterItem(Head(items), c))

\* The events of running the reactions `items` on session s, in order.  Each
\* event records the socket state the call found.
RECURSIVE DeliverEvents(_, _, _)
DeliverEvents(s, items, c) ==
  IF items = <<>> THEN <<>>
  ELSE LET it == Head(items)
           ev == IF it[1] = "close" THEN <<"session.close", s, c>>
                                    ELSE <<"send", s, it, c>>
       IN  <<ev>> \o DeliverEvents(s, Tail(items), AfterItem(it, c))

\* sessionPromise.then(cb) for each of `items` on promise p (0 is null: the
\* callers return before reaching then), with the promises in states pr and the
\* sockets in states cn.  A fulfilled promise runs the reactions as microtasks
\* of this task; a pending one keeps them; a rejected one drops them.
ThenRuns(pr, p, items)   == p # 0 /\ items # <<>> /\ pr[p] = "fulfilled"
ThenQueues(pr, p, items) == p # 0 /\ items # <<>> /\ pr[p] = "pending"
ThenFits(pr, th, p, items) ==
  ThenQueues(pr, p, items) => Len(th[p]) + Len(items) <= MaxPending
ThenEvents(pr, cn, p, items) ==
  IF ThenRuns(pr, p, items) THEN DeliverEvents(p, items, cn[p]) ELSE <<>>
ThenConn(pr, cn, p, items) ==
  IF ThenRuns(pr, p, items) THEN [cn EXCEPT ![p] = FinalConn(items, cn[p])] ELSE cn
\* Reactions kept last-registered first.
ThenThensFront(pr, th, p, items) ==
  IF ThenQueues(pr, p, items) THEN [th EXCEPT ![p] = items \o @] ELSE th

ThenThens(pr, th, p, items) ==
  IF ThenQueues(pr, p, items) THEN [th EXCEPT ![p] = @ \o items] ELSE th

\* The log of a connection: the realtime input it was handed, by kind and
\* submission number, and its close call.
RECURSIVE Logged(_)
Logged(items) ==
  IF items = <<>> THEN <<>>
  ELSE LET it == Head(items)
       IN  (IF it[1] = "close" THEN << <<"close">> >>
            ELSE IF it[1] \in {"audio", "image"} THEN << <<it[1], it[2]>> >>
            ELSE <<>>)
           \o Logged(Tail(items))
ThenReceived(pr, rc, p, items) ==
  IF ThenRuns(pr, p, items) THEN [rc EXCEPT ![p] = @ \o Logged(items)] ELSE rc

\* ------------------------------------------------------------ inbound data
Objects == {"cup", "pen"}                      \* labels of detected objects
DetectionLists == {<<>>, <<"cup">>, <<"pen", "cup">>}
ToolNames == {"displayDetectedObjects", "clearDetectedObjects", "other"}

\* A function call of a toolCall message; ids are those the service gave.
Call(i, n, d) == [id |-> i, name |-> n, detections |-> d]
CallsAt(i) == {Call(i, "displayDetectedObjects", d) : d \in DetectionLists}
                \cup {Call(i, "clearDetectedObjects", <<>>), Call(i, "other", <<>>)}
CallLists == {<<>>} \cup {<<c>> : c \in CallsAt(1)}
               \cup (IF MaxCalls >= 2
                     THEN {<<c, d>> : c \in CallsAt(1), d \in CallsAt(2)} ELSE {})
               \cup (IF MaxCalls >= 3
                     THEN {<<Call(1, "other", <<>>), c, d>> : c \in CallsAt(2), d \in CallsAt(3)}
                     ELSE {})

\* A LiveServerMessage: audio is the duration of the inline audio chunk
\* (0: none, below 0: the error its decoding throws), text the transcription delta (<<>>: none), grounding the
\* grounding chunks (<<>>: none), calls the function calls (<<>>: no toolCall).
Message(a, i, t, g, c, tc) ==
  [audio |-> a, interrupted |-> i, text |-> t, grounding |-> g, calls |-> c,
   turnComplete |-> tc]

ToolMessages == {Message(0, FALSE, <<>>, <<>>, c, FALSE) : c \in CallLists \ {<<>>}}

\* ------------------------------------------------------------------- Init
\* The state after construction, before the mount effect has run.
InitApp ==
  /\ status = "IDLE" /\ apiKey = FALSE /\ stream = FALSE
  /\ detectedObjects = <<>> /\ selectedObject = "null"
  /\ transcription = <<>> /\ groundingChunks = <<>>
  /\ inputAudioContextRef = 0 /\ scriptProcessorRef = 0 /\ mediaStreamSourceRef = 0
  /\ transcriptionRef = <<>> /\ isSessionActiveRef = FALSE /\ frameIntervalRef = 0
  /\ storedKey \in BOOLEAN /\ mounted = TRUE /\ permPending = FALSE
  /\ timers = {} /\ tapConnected = {} /\ srcConnected = {}
  /\ inCtx = [s \in Sessions |-> "none"]
  /\ sessionPromise = 0 /\ outputAudioContext = 0 /\ nextStartTime = 0
  /\ sources = {} /\ outCtx = [s \in Sessions |-> "none"] /\ now = 0
  /\ nextSession = 1
  /\ conn = [s \in Sessions |-> "none"]
  /\ promise = [s \in Sessions |-> "none"]
  /\ thens = [s \in Sessions |-> <<>>]
  /\ played = <<>> /\ lastPlayOp = "none" /\ heard = <<>>
  /\ sendSeq = 0 /\ received = [s \in Sessions |-> <<>>]
  /\ trace = <<>>

Init == InitApp /\ audioData = <<>> /\ pcmData = <<>> /\ channelData = <<>>

\* --------------------------------------------------------- service: close
\* closeLiveSession, as a state function of the state it is called in.
CloseItems == IF sessionPromise # 0 THEN << <<"close">> >> ELSE <<>>
OutCloses  == outputAudioContext # 0 /\ outCtx[outputAudioContext] # "closed"
CloseEvents ==
  (IF sessionPromise # 0 THEN << <<"sessionPromise=null", sessionPromise>> >> ELSE <<>>)
  \o (IF OutCloses
      THEN << <<"outputAudioContext.close", outputAudioContext,
                outCtx[outputAudioContext]>> >>
      ELSE <<>>)

\* A close() that leaves the context running.
CtxCloseNot(ctx, c) == ctx

\* AudioContext.close(): the context stops at once, its state attribute
\* turns 'closed' later (ContextClosed); a second close() is rejected.
CtxClose(ctx, c) == [ctx EXCEPT ![c] = IF @ = "running" THEN "closing" ELSE @]

\* closeLiveSession in a task that found the promises in states pr, the
\* sockets in states cn and the queued reactions th.
closeLiveSession(pr, cn, th) ==
  /\ ThenFits(pr, th, sessionPromise, CloseItems)
  /\ sessionPromise' = 0
  /\ conn' = ThenConn(pr, cn, sessionPromise, CloseItems)
  /\ thens' = ThenThens(pr, th, sessionPromise, CloseItems)
  /\ outCtx' = IF OutCloses THEN CtxClose(outCtx, outputAudioContext) ELSE outCtx

\* ------------------------------------------------------ handleSessionStop
InCloses == inputAudioContextRef # 0 /\ inCtx[inputAudioContextRef] # "closed"

\* A teardown that releases the capture context before the tap.
StopEventsContextFirst ==
  (IF frameIntervalRef # 0 THEN << <<"clearInterval", frameIntervalRef>> >> ELSE <<>>)
  \o CloseEvents
  \o (IF InCloses
      THEN << <<"inputAudioContext.close", inputAudioContextRef,
                inCtx[inputAudioContextRef]>> >>
      ELSE <<>>)
  \o (IF scriptProcessorRef # 0
      THEN << <<"scriptProcessor.disconnect", scriptProcessorRef>> >> ELSE <<>>)
  \o (IF mediaStreamSourceRef # 0
      THEN << <<"mediaStreamSource.disconnect", mediaStreamSourceRef>> >> ELSE <<>>)

\* The calls handleSessionStop makes past its guard, in the order it makes
\* them.
StopEvents ==
  (IF frameIntervalRef # 0 THEN << <<"clearInterval", frameIntervalRef>> >> ELSE <<>>)
  \o CloseEvents
  \o (IF scriptProcessorRef # 0
      THEN << <<"scriptProcessor.disconnect", scriptProcessorRef>> >> ELSE <<>>)
  \o (IF mediaStreamSourceRef # 0
      THEN << <<"mediaStreamSource.disconnect", mediaStreamSourceRef>> >> ELSE <<>>)
  \o (IF InCloses
      THEN << <<"inputAudioContext.close", inputAudioContextRef,
                inCtx[inputAudioContextRef]>> >>
      ELSE <<>>)

\* handleSessionStop without its guard.
StopGuardAlways == TRUE

\* The guard of handleSessionStop: it proceeds only on an active session.
StopGuard == isSessionActiveRef

\* handleSessionStop called inside a handler whose own events before the call
\* are `pre` and after it `post`, in a task that found the promises in states
\* pr, the sockets in states cn and the queued reactions th.  The
\* session.close() reaction, when the promise is fulfilled, runs after the
\* handler has returned.
handleSessionStop(pre, post, pr, cn, th) ==
  IF ~StopGuard
  THEN /\ trace' = pre \o post
       /\ conn' = cn
       /\ thens' = th
       /\ UNCHANGED <<isSessionActiveRef, frameIntervalRef, timers, sessionPromise,
                      outCtx, scriptProcessorRef, mediaStreamSourceRef,
                      tapConnected, srcConnected, inCtx, detectedObjects,
                      selectedObject, transcription, groundingChunks, received>>
  ELSE /\ isSessionActiveRef' = FALSE
       /\ received' = ThenReceived(pr, received, sessionPromise, CloseItems)
       /\ frameIntervalRef' = 0
       /\ timers' = timers \ {frameIntervalRef}
       /\ closeLiveSession(pr, cn, th)
       /\ scriptProcessorRef' = 0
       /\ tapConnected' = tapConnected \ {scriptProcessorRef}
       /\ mediaStreamSourceRef' = 0
       /\ srcConnected' = srcConnected \ {mediaStreamSourceRef}
       /\ inCtx' = IF InCloses THEN CtxClose(inCtx, inputAudioContextRef) ELSE inCtx
       /\ detectedObjects' = <<>>
       /\ selectedObject' = "null"
       /\ transcription' = <<>>
       /\ groundingChunks' = <<>>
       /\ trace' = pre \o StopEvents \o post
                       \o ThenEvents(pr, cn, sessionPromise, CloseItems)

\* What handleSessionStop never writes, beside the status and the key.
stopFrame == <<stream, mounted, permPending, inputAudioContextRef, transcriptionRef,
               outputAudioContext, nextStartTime, sources, now, nextSession, played,
               lastPlayOp, heard, sendSeq, pcmVars>>

\* ------------------------------------------------------ App: setup and keys
\* initialize(): run by the mount effect (status IDLE) and by the retry
\* button of the ERROR overlay; with a stored key it goes on into
\* requestPermissionsAndSetup, which waits for getUserMedia.
Initialize ==
  /\ mounted /\ status \in {"IDLE", "ERROR"} /\ ~permPending
  /\ IF storedKey
     THEN apiKey' = TRUE /\ status' = "REQUESTING_PERMISSIONS" /\ permPending' = TRUE
     ELSE status' = "SELECT_KEY" /\ UNCHANGED <<apiKey, permPending>>
  /\ trace' = << <<"initialize">> >>
  /\ UNCHANGED <<stream, detectedObjects, selectedObject, transcription,
                 groundingChunks, refVars, storedKey, mounted, timers, tapConnected,
                 srcConnected, inCtx, svcVars, connVars, played, lastPlayOp, heard, sendVars, pcmVars>>

\* handleApiKeySubmit(key): the form of the SELECT_KEY overlay.
HandleApiKeySubmit(nonEmpty) ==
  /\ mounted /\ status = "SELECT_KEY" /\ ~permPending
  /\ IF nonEmpty
     THEN /\ apiKey' = TRUE /\ storedKey' = TRUE
          /\ status' = "REQUESTING_PERMISSIONS" /\ permPending' = TRUE
     ELSE status' = "SELECT_KEY" /\ UNCHANGED <<apiKey, storedKey, permPending>>
  /\ trace' = << <<"handleApiKeySubmit", nonEmpty>> >>
  /\ UNCHANGED <<stream, detectedObjects, selectedObject, transcription,
                 groundingChunks, refVars, mounted, timers, tapConnected,
                 srcConnected, inCtx, svcVars, connVars, played, lastPlayOp, heard, sendVars, pcmVars>>

\* requestPermissionsAndSetup after its await: getUserMedia resolved or threw.
PermissionResult(granted) ==
  /\ permPending
  /\ permPending' = FALSE
  /\ IF granted THEN stream' = TRUE /\ status' = "READY"
                ELSE status' = "ERROR" /\ UNCHANGED stream
  /\ trace' = << <<"getUserMedia", granted>> >>
  /\ UNCHANGED <<apiKey, detectedObjects, selectedObject, transcription,
                 groundingChunks, refVars, storedKey, mounted, timers, tapConnected,
                 srcConnected, inCtx, svcVars, connVars, played, lastPlayOp, heard, sendVars, pcmVars>>

\* ------------------------------------------- service: startLiveSession
\* A start that connects again on the connections that are open.
startLiveSessionReopens(s) ==
  /\ outputAudioContext' = s
  /\ outCtx' = [outCtx EXCEPT ![s] = "running"]
  /\ now' = 0
  /\ nextStartTime' = 0
  /\ sessionPromise' = s
  /\ conn' = [c \in Sessions |-> IF c = s \/ conn[c] = "open" THEN "opening" ELSE conn[c]]
  /\ promise' = [promise EXCEPT ![s] = "pending"]
  /\ nextSession' = s + 1

\* A new output AudioContext, the cursor reset, and a connection whose
\* promise replaces sessionPromise.  The live-set `sources` is not touched.
startLiveSession(s) ==
  /\ outputAudioContext' = s
  /\ outCtx' = [outCtx EXCEPT ![s] = "running"]
  /\ now' = 0
  /\ nextStartTime' = 0
  /\ sessionPromise' = s
  /\ conn' = [conn EXCEPT ![s] = "opening"]
  /\ promise' = [promise EXCEPT ![s] = "pending"]
  /\ nextSession' = s + 1

\* A start that reports a missing key as a missing stream.
StartStatusKeyAsError(st, key) == IF ~st \/ ~key THEN "ERROR" ELSE "LISTENING"

\* The early returns of handleSessionStart: the status it sets with the
\* media stream st and the key it holds.
StartStatus(st, key) ==
  IF ~st THEN "ERROR" ELSE IF ~key THEN "SELECT_KEY" ELSE "LISTENING"

\* handleSessionStart: the microphone button of the READY screen.
HandleSessionStart ==
  /\ mounted /\ status = "READY"
  /\ StartStatus(stream, apiKey) = "LISTENING" => nextSession <= MaxSessions
  /\ IF StartStatus(stream, apiKey) # "LISTENING"
     THEN /\ status' = StartStatus(stream, apiKey)
          /\ trace' = << <<"handleSessionStart", 0>>,
                         <<"setStatus", StartStatus(stream, apiKey)>> >>
          /\ UNCHANGED <<detectedObjects, selectedObject, transcription,
                         groundingChunks, transcriptionRef, svcVars, nextSession,
                         conn, promise, heard>>
     ELSE /\ status' = "LISTENING"
          /\ detectedObjects' = <<>> /\ selectedObject' = "null"
          /\ transcription' = <<>> /\ transcriptionRef' = <<>>
          /\ heard' = <<>>
          /\ groundingChunks' = <<>>
          /\ startLiveSession(nextSession)
          /\ trace' = << <<"handleSessionStart", nextSession>>,
                         <<"setStatus", "LISTENING">>,
                         <<"startLiveSession", nextSession>> >>
          /\ UNCHANGED <<sources>>
  /\ UNCHANGED <<apiKey, stream, inputAudioContextRef, scriptProcessorRef,
                 mediaStreamSourceRef, isSessionActiveRef, frameIntervalRef,
                 domVars, thens, played, lastPlayOp, sendVars, pcmVars>>

\* handleStopButtonClick: the microphone button of the LISTENING screen.
HandleStopButtonClick ==
  /\ mounted /\ status = "LISTENING"
  /\ handleSessionStop(<< <<"handleStopButtonClick">> >>,
                       << <<"setStatus", "READY">> >>, promise, conn, thens)
  /\ status' = "READY"
  /\ UNCHANGED <<apiKey, storedKey, promise, stopFrame>>

\* The stream the mount effect closed over: the effect has no dependencies,
\* so it ran once, after the first render, whose stream state is the initial
\* null.
currentStream == FALSE

\* The cleanup of the mount effect: it stops the tracks of the stream it
\* closed over, when that is not null, and calls handleSessionStop.
Unmount ==
  /\ mounted
  /\ mounted' = FALSE
  /\ handleSessionStop(<< <<"unmount">> >>
                         \o (IF currentStream THEN << <<"track.stop">> >> ELSE <<>>),
                       <<>>, promise, conn, thens)
  /\ UNCHANGED <<status, apiKey, storedKey, promise, stream, permPending,
                 inputAudioContextRef, transcriptionRef, outputAudioContext,
                 nextStartTime, sources, now, nextSession, played, lastPlayOp, heard,
                 sendSeq, pcmVars>>


\* ------------------------------------------------- connection: open, settle
\* A frame timer set without clearing the one the ref holds.
RestartTimerKeep(ts, old, s) == ts \cup {s}

\* onOpen's frame timer: the interval the ref holds is cleared, a new one set.
RestartTimer(ts, old, s) == (ts \ {old}) \cup {s}

\* onOpen of connection s.
OnOpen(s) ==
  /\ conn[s] = "opening"
  /\ conn' = [conn EXCEPT ![s] = "open"]
  /\ isSessionActiveRef' = TRUE
  /\ inputAudioContextRef' = s
  /\ inCtx' = [inCtx EXCEPT ![s] = "running"]
  /\ mediaStreamSourceRef' = s
  /\ scriptProcessorRef' = s
  /\ srcConnected' = srcConnected \cup {s}
  /\ tapConnected' = tapConnected \cup {s}
  /\ timers' = RestartTimer(timers, frameIntervalRef, s)
  /\ frameIntervalRef' = s
  /\ trace' = << <<"onOpen", s>> >>
                \o (IF frameIntervalRef # 0
                    THEN << <<"clearInterval", frameIntervalRef>> >> ELSE <<>>)
                \o << <<"setInterval", s>> >>
  /\ UNCHANGED <<appVars, transcriptionRef, storedKey, mounted, permPending,
                 svcVars, nextSession, promise, thens, played, lastPlayOp, heard, sendVars, pcmVars>>

\* The promise of connect() is fulfilled with the session: the await in
\* handleSessionStart returns (nothing follows it) and the reactions queued
\* on the promise run in the order they were registered.
PromiseFulfil(s) ==
  /\ promise[s] = "pending" /\ conn[s] = "open"
  /\ promise' = [promise EXCEPT ![s] = "fulfilled"]
  /\ conn' = [conn EXCEPT ![s] = FinalConn(thens[s], conn[s])]
  /\ thens' = [thens EXCEPT ![s] = <<>>]
  /\ received' = [received EXCEPT ![s] = @ \o Logged(thens[s])]
  /\ trace' = << <<"fulfilled", s>> >> \o DeliverEvents(s, thens[s], conn[s])
  /\ UNCHANGED <<appVars, refVars, domVars, svcVars, nextSession, played, lastPlayOp, heard,
                 sendSeq, pcmVars>>

\* The status the catch block of handleSessionStart maps a message to.
CatchStatus(e) ==
  IF e \in {"API key not valid", "Requested entity was not found"} THEN "SELECT_KEY"
  ELSE IF e = "quota" THEN "QUOTA_ERROR" ELSE "ERROR"

\* An onError that knows no credential failure.
OnErrorStatusGeneric(e) == "ERROR"

\* The status onError maps a message to.
OnErrorStatus(e) ==
  IF e \in {"API key not valid", "Requested entity was not found"} THEN "SELECT_KEY"
  ELSE "ERROR"

\* The promise of connect() is rejected with message e before the socket
\* opened: the catch block of handleSessionStart runs.
PromiseReject(s, e) ==
  /\ promise[s] = "pending" /\ conn[s] = "opening"
  /\ promise' = [promise EXCEPT ![s] = "rejected"]
  /\ IF CatchStatus(e) = "SELECT_KEY"
     THEN storedKey' = FALSE /\ apiKey' = FALSE
     ELSE UNCHANGED <<storedKey, apiKey>>
  /\ handleSessionStop(<< <<"catch", s, e>> >>,
                       << <<"setStatus", CatchStatus(e)>> >>,
                       [promise EXCEPT ![s] = "rejected"],
                       [conn EXCEPT ![s] = "closed"],
                       [thens EXCEPT ![s] = <<>>])
  /\ status' = CatchStatus(e)
  /\ UNCHANGED stopFrame

\* onError of connection s with message e; the socket then fails.
OnError(s, e) ==
  /\ conn[s] \in {"opening", "open"}
  /\ IF OnErrorStatus(e) = "SELECT_KEY"
     THEN storedKey' = FALSE /\ apiKey' = FALSE
     ELSE UNCHANGED <<storedKey, apiKey>>
  /\ handleSessionStop(<< <<"onError", s, e>> >>,
                       << <<"setStatus", OnErrorStatus(e)>> >>,
                       promise, [conn EXCEPT ![s] = "failing"], thens)
  /\ status' = OnErrorStatus(e)
  /\ UNCHANGED <<promise, stopFrame>>

\* onClose of connection s: the socket closed, after a local close(), a
\* failure, or on the remote side's initiative.  The first event records the
\* socket state and the value of isSessionActiveRef the handler found.
OnClose(s) ==
  /\ conn[s] \in {"open", "failing", "closing"}
  /\ IF isSessionActiveRef
     THEN /\ handleSessionStop(<< <<"onClose", s, conn[s], TRUE>> >>,
                               << <<"setStatus", "READY">> >>,
                               promise, [conn EXCEPT ![s] = "closed"], thens)
          /\ status' = "READY"
     ELSE /\ trace' = << <<"onClose", s, conn[s], FALSE>> >>
          /\ conn' = [conn EXCEPT ![s] = "closed"]
          /\ UNCHANGED <<status, isSessionActiveRef, frameIntervalRef, timers,
                         sessionPromise, thens, outCtx, scriptProcessorRef,
                         mediaStreamSourceRef, tapConnected, srcConnected, inCtx,
                         detectedObjects, selectedObject, transcription,
                         groundingChunks, received>>
  /\ UNCHANGED <<apiKey, storedKey, promise, stopFrame>>

\* The state attribute of a closing AudioContext turns 'closed'.  For a
\* capture context the reaction of close().then runs: it nulls
\* inputAudioContextRef, whatever context the ref holds by then.
InputContextClosed(c) ==
  /\ inCtx[c] = "closing"
  /\ inCtx' = [inCtx EXCEPT ![c] = "closed"]
  /\ inputAudioContextRef' = 0
  /\ trace' = << <<"inputContextClosed", c, inputAudioContextRef>> >>
  /\ UNCHANGED <<appVars, scriptProcessorRef, mediaStreamSourceRef, transcriptionRef,
                 isSessionActiveRef, frameIntervalRef, storedKey, mounted,
                 permPending, timers, tapConnected, srcConnected, svcVars,
                 connVars, played, lastPlayOp, heard, sendVars, pcmVars>>

OutputContextClosed(c) ==
  /\ outCtx[c] = "closing"
  /\ outCtx' = [outCtx EXCEPT ![c] = "closed"]
  /\ trace' = << <<"outputContextClosed", c>> >>
  /\ UNCHANGED <<appVars, refVars, domVars, sessionPromise, outputAudioContext,
                 nextStartTime, sources, now, connVars, played, lastPlayOp, heard, sendVars, pcmVars>>


\* ------------------------------------------------------- service: playback
\* played[i] is the i-th source started: `when` is the argument of
\* source.start, `begin` the time it starts to sound (a start time in the
\* past starts at once), `stopAt` the clock time of source.stop() (-1: none).
Source(w, d, c) ==
  [when |-> w, begin |-> Max(w, now), dur |-> d, ctx |-> c, stopAt |-> -1]

\* The guard of playAudioResponse.
PlayGuard == outputAudioContext # 0 /\ outCtx[outputAudioContext] # "closed"

\* playAudioResponse up to its await: the cursor is raised to the clock.
PlayCursor(cursor) == Max(cursor, now)

\* stopAudioPlayback: every source of the live-set is stopped and removed,
\* the cursor is reset.
StopPlayed(pl, live) ==
  [i \in 1..Len(pl) |-> IF i \in live THEN [pl[i] EXCEPT !.stopAt = now] ELSE pl[i]]
StopCursor == 0

\* playAudioResponse after its await, with the cursor as it then is.
PlayStart(pl, cursor, d) == Append(pl, Source(cursor, d, outputAudioContext))
PlayAdvance(cursor, d) == cursor + d

\* The 'ended' event of a source that played to its end.
SourceEnded(i) ==
  /\ i \in sources
  /\ played[i].ctx = outputAudioContext
  /\ now >= played[i].begin + played[i].dur
  /\ sources' = sources \ {i}
  /\ trace' = << <<"ended", i>> >>
  /\ UNCHANGED <<appVars, refVars, domVars, sessionPromise, outputAudioContext,
                 nextStartTime, outCtx, now, connVars, played, lastPlayOp, heard, sendVars, pcmVars>>

\* The output clock advances.
ClockTick ==
  /\ PlayGuard /\ outCtx[outputAudioContext] = "running"
  /\ now < MaxClock
  /\ now' = now + 1
  /\ trace' = << <<"tick">> >>
  /\ UNCHANGED <<appVars, refVars, domVars, sessionPromise, outputAudioContext,
                 nextStartTime, sources, outCtx, connVars, played, lastPlayOp, heard, sendVars, pcmVars>>

\* ------------------------------------------------------- tool dispatch
KnownTool(fc) == fc.name \in {"displayDetectedObjects", "clearDetectedObjects"}

\* sendToolResponse(id, name, result): the reaction it registers on
\* sessionPromise p, none when p is null.
sendToolResponse(p, fc) ==
  IF p = 0 THEN <<>> ELSE << <<"tool", fc.id, fc.name>> >>

\* A loop that answers every call, whatever its name.
DispatchItemsAll(p, fc) == sendToolResponse(p, fc)

\* One turn of the loop over functionCalls: the reactions registered.
DispatchItems(p, fc) == IF KnownTool(fc) THEN sendToolResponse(p, fc) ELSE <<>>

\* A display call that adds its detections to the set.
DispatchDetectionsPatch(fc, d) ==
  IF fc.name = "displayDetectedObjects" THEN d \o fc.detections
  ELSE IF fc.name = "clearDetectedObjects" THEN <<>> ELSE d

\* A loop that empties the set on every call that is not a display call.
DispatchDetectionsElseClear(fc, d) ==
  IF fc.name = "displayDetectedObjects" THEN fc.detections ELSE <<>>

\* One turn of the loop: the detection set and the selection it leaves.
DispatchDetections(fc, d) ==
  IF fc.name = "displayDetectedObjects" THEN fc.detections
  ELSE IF fc.name = "clearDetectedObjects" THEN <<>> ELSE d
DispatchSelection(fc, sel) ==
  IF fc.name = "clearDetectedObjects" THEN "null" ELSE sel

RECURSIVE LoopItems(_, _)
LoopItems(p, calls) ==
  IF calls = <<>> THEN <<>>
  ELSE DispatchItems(p, Head(calls)) \o LoopItems(p, Tail(calls))

RECURSIVE LoopDetections(_, _)
LoopDetections(calls, d) ==
  IF calls = <<>> THEN d
  ELSE LoopDetections(Tail(calls), DispatchDetections(Head(calls), d))

RECURSIVE LoopSelection(_, _)
LoopSelection(calls, sel) ==
  IF calls = <<>> THEN sel
  ELSE LoopSelection(Tail(calls), DispatchSelection(Head(calls), sel))

\* The events of the loop: each call taken up, and each sendToolResponse call.
RECURSIVE LoopEvents(_, _)
LoopEvents(p, calls) ==
  IF calls = <<>> THEN <<>>
  ELSE LET fc == Head(calls)
       IN  << <<"functionCall", fc.id, fc.name>> >>
           \o (IF KnownTool(fc) THEN << <<"sendToolResponse", fc.id, p>> >> ELSE <<>>)
           \o LoopEvents(p, Tail(calls))

\* ------------------------------------------------------------- onMessage
\* A turn completion that is an else-branch of the deltas.
TurnResetElse(m, v) ==
  IF m.turnComplete /\ m.text = <<>> /\ m.grounding = <<>> THEN <<>> ELSE v

\* The turnComplete branch, the last of the handler: it empties what the
\* branches before it left as v.
TurnReset(m, v) == IF m.turnComplete THEN <<>> ELSE v

\* onMessage of connection s with message m.  The facets are handled in
\* the order of the handler; the part of playAudioResponse after its await
\* and the reactions of sendToolResponse run when the handler has returned.
\* A chunk that does not decode (m.audio < 0) rejects the promise of
\* playAudioResponse, which nothing handles, after the cursor was raised.
OnMessage(s, m) ==
  LET plays   == m.audio # 0 /\ PlayGuard
      starts  == plays /\ m.audio > 0
      cursor1 == IF plays THEN PlayCursor(nextStartTime) ELSE nextStartTime
      cursor2 == IF m.interrupted THEN StopCursor ELSE cursor1
      played2 == IF m.interrupted THEN StopPlayed(played, sources) ELSE played
      live2   == IF m.interrupted THEN {} ELSE sources
      ref1    == transcriptionRef \o m.text
      items   == LoopItems(sessionPromise, m.calls)
  IN
  /\ conn[s] = "open"
  /\ starts => Len(played) < MaxChunks
  /\ Len(ref1) <= MaxText
  /\ ThenFits(promise, thens, sessionPromise, items)
  /\ nextStartTime' = IF starts THEN PlayAdvance(cursor2, m.audio) ELSE cursor2
  /\ played' = IF starts THEN PlayStart(played2, cursor2, m.audio) ELSE played2
  /\ sources' = IF starts THEN live2 \cup {Len(played) + 1} ELSE live2
  /\ lastPlayOp' = IF m.interrupted THEN "stopAudioPlayback"
                   ELSE IF plays THEN "playAudioResponse" ELSE lastPlayOp
  /\ transcriptionRef' = TurnReset(m, ref1)
  /\ heard' = IF m.turnComplete THEN <<>> ELSE heard \o m.text
  /\ transcription' = TurnReset(m, IF m.text # <<>> THEN ref1 ELSE transcription)
  /\ groundingChunks' = TurnReset(m, IF m.grounding # <<>> THEN m.grounding
                                     ELSE groundingChunks)
  /\ detectedObjects' = LoopDetections(m.calls, detectedObjects)
  /\ selectedObject' = LoopSelection(m.calls, selectedObject)
  /\ conn' = ThenConn(promise, conn, sessionPromise, items)
  /\ thens' = ThenThens(promise, thens, sessionPromise, items)
  /\ trace' = << <<"onMessage", s, m>> >>
              \o (IF plays THEN << <<"playAudioResponse", cursor1>> >> ELSE <<>>)
              \o (IF m.interrupted THEN << <<"stopAudioPlayback", sources>> >> ELSE <<>>)
              \o LoopEvents(sessionPromise, m.calls)
              \o << <<"return">> >>
              \o (IF starts THEN << <<"source.start", cursor2, now>> >>
                  ELSE IF plays THEN << <<"playAudioResponse.rejected", m.audio>> >>
                  ELSE <<>>)
              \o ThenEvents(promise, conn, sessionPromise, items)
  /\ UNCHANGED <<status, apiKey, stream, inputAudioContextRef, scriptProcessorRef,
                 mediaStreamSourceRef, isSessionActiveRef, frameIntervalRef,
                 domVars, sessionPromise, outputAudioContext, outCtx, now,
                 nextSession, promise, sendVars, pcmVars>>

\* --------------------------------------------------- CameraFeed: selection
\* A click on the canvas: onObjectSelect gets the top-most detection under
\* the point, null when there is none.
HandleClick(o) ==
  /\ mounted /\ status \in {"READY", "LISTENING"}
  /\ o = "null" \/ \E i \in 1..Len(detectedObjects) : detectedObjects[i] = o
  /\ selectedObject' = o
  /\ trace' = << <<"click", o>> >>
  /\ UNCHANGED <<status, apiKey, stream, detectedObjects, transcription,
                 groundingChunks, refVars, domVars, svcVars, connVars, played,
                 lastPlayOp, heard, sendVars, pcmVars>>

\* ------------------------------------------------------------------ codec
\* A sample is a number of 1/(32768 * SampleQ): SampleQ steps to one step of
\* the 16-bit scale, so that x * 32768 need not be an integer.
SampleQ == 2
MaxBlock == 3         \* samples in a block of several samples
FullScale == 32768 * SampleQ                     \* the sample 1.0
Samples == (-FullScale)..FullScale
EdgeSamples == {-FullScale, -1, 0, SampleQ + 1, FullScale - 1}
Blocks == {<<x>> : x \in Samples}
            \cup UNION {[1..n -> EdgeSamples] : n \in 2..MaxBlock}

\* int16[i] = audioData[i] * 32768: the product is truncated towards zero
\* and wrapped into 16 bits (ToInt16).
Truncate(x) == IF x >= 0 THEN x \div SampleQ ELSE -((-x) \div SampleQ)
ToInt16(v) == ((v + 32768) % 65536) - 32768
FloatToInt16(x) == ToInt16(Truncate(x))

\* The bytes of the samples, high byte first.
RECURSIVE Int16BytesBigEndian(_)
Int16BytesBigEndian(ints) ==
  IF ints = <<>> THEN <<>>
  ELSE LET u == Head(ints) % 65536
       IN  <<u \div 256, u % 256>> \o Int16BytesBigEndian(Tail(ints))

\* new Uint8Array(int16.buffer): two bytes a sample, low byte first.
RECURSIVE Int16Bytes(_)
Int16Bytes(ints) ==
  IF ints = <<>> THEN <<>>
  ELSE LET u == Head(ints) % 65536
       IN  <<u % 256, u \div 256>> \o Int16Bytes(Tail(ints))

\* encode: btoa of the bytes.  A character is its index in the base64
\* alphabet, 64 is the padding '='.
RECURSIVE encode(_)
encode(bytes) ==
  IF bytes = <<>> THEN <<>>
  ELSE IF Len(bytes) = 1
  THEN <<bytes[1] \div 4, (bytes[1] % 4) * 16, 64, 64>>
  ELSE IF Len(bytes) = 2
  THEN <<bytes[1] \div 4, (bytes[1] % 4) * 16 + bytes[2] \div 16,
         (bytes[2] % 16) * 4, 64>>
  ELSE <<bytes[1] \div 4, (bytes[1] % 4) * 16 + bytes[2] \div 16,
         (bytes[2] % 16) * 4 + bytes[3] \div 64, bytes[3] % 64>>
       \o encode(SubSeq(bytes, 4, Len(bytes)))

\* decode: atob of the text, for a text that btoa made.
RECURSIVE decode(_)
decode(text) ==
  IF Len(text) < 4 THEN <<>>
  ELSE LET a == text[1]
           b == text[2]
           c == text[3]
           d == text[4]
           b1 == a * 4 + b \div 16
           b2 == (b % 16) * 16 + c \div 4
           b3 == (c % 4) * 64 + d
       IN  (IF c = 64 THEN <<b1>> ELSE IF d = 64 THEN <<b1, b2>> ELSE <<b1, b2, b3>>)
           \o decode(SubSeq(text, 5, Len(text)))

\* new Int16Array(data.buffer): signed, low byte first.
RECURSIVE BytesInt16(_)
BytesInt16(bytes) ==
  IF Len(bytes) < 2 THEN <<>>
  ELSE <<ToInt16(bytes[1] + 256 * bytes[2])>> \o BytesInt16(SubSeq(bytes, 3, Len(bytes)))

\* The float block as streamAudio turns it into the payload's data.
PcmOfSamples(block) ==
  encode(Int16Bytes([i \in 1..Len(block) |-> FloatToInt16(block[i])]))

\* decodeAudioData on one channel: each integer divided by 32768.
SamplesOfPcm(text) ==
  LET ints == BytesInt16(decode(text))
  IN  [i \in 1..Len(ints) |-> ints[i] * SampleQ]

\* atob on any text.  Beside the alphabet and the padding, 65 is a character
\* outside the alphabet and 66 an ASCII whitespace character.  atob removes
\* the whitespace, then one or two padding characters from the end of a text
\* of 4n characters; it throws on a text of 4n + 1 characters and on any
\* other character that is left; bits beyond the last whole byte are dropped.
Outside == 65
Whitespace == 66
Strip(text) == SelectSeq(text, LAMBDA c : c # Whitespace)
Unpad(t) ==
  IF Len(t) = 0 \/ Len(t) % 4 # 0 \/ t[Len(t)] # 64 THEN t
  ELSE IF t[Len(t) - 1] = 64 THEN SubSeq(t, 1, Len(t) - 2)
  ELSE SubSeq(t, 1, Len(t) - 1)
atobThrows(text) ==
  LET u == Unpad(Strip(text))
  IN  Len(u) % 4 = 1 \/ \E i \in 1..Len(u) : u[i] > 63
atob(text) ==
  LET u == Unpad(Strip(text))
  IN  decode(u \o (IF Len(u) % 4 = 2 THEN <<64, 64>>
                   ELSE IF Len(u) % 4 = 3 THEN <<64>> ELSE <<>>))

\* An Int16Array over a buffer whose length is odd.
Int16ThrowsNever(bytes) == FALSE

\* new Int16Array(data.buffer) throws a RangeError when the byte length of
\* the buffer is not a multiple of 2.
Int16Throws(bytes) == Len(bytes) % 2 = 1

\* The errors a chunk can end in.
InvalidCharacterError == -1
RangeError == -2
NotSupportedError == -3

\* The inline data of a message as playAudioResponse meets it: the number of
\* frames of the buffer it decodes to, which is its duration in ticks of
\* 1/24000 s; 0 when the handler does not call playAudioResponse (an empty
\* string); the error when decode or decodeAudioData throws (createBuffer
\* throws on a buffer of no frames).
ChunkDuration(text) ==
  IF text = <<>> THEN 0
  ELSE IF atobThrows(text) THEN InvalidCharacterError
  ELSE IF Int16Throws(atob(text)) THEN RangeError
  ELSE IF Len(BytesInt16(atob(text))) = 0 THEN NotSupportedError
  ELSE Len(BytesInt16(atob(text)))

\* The inline data of inbound messages: well-formed chunks of one and two
\* frames, with and without padding and whitespace, and malformed ones.
ChunkTexts ==
  {encode(<<0, 0>>), encode(<<1, 0, 2, 0>>), <<0, 0, 0>>,
   <<0, 0, Whitespace, 0, 64>>, <<Whitespace>>,
   encode(<<7>>), encode(<<1, 2, 3>>), <<0, 0, Outside, 64>>, <<0>>}

\* onMessage with a message whose inline data is `text`.
OnChunk(s, text) ==
  OnMessage(s, Message(ChunkDuration(text), FALSE, <<>>, <<>>, <<>>, FALSE))

\* The encoder and the decoder applied to a block, on their own.
Encode ==
  /\ audioData # <<>> /\ pcmData = <<>>
  /\ pcmData' = PcmOfSamples(audioData)
  /\ trace' = << <<"encode">> >>
  /\ UNCHANGED <<appVars, refVars, domVars, svcVars, connVars, played, lastPlayOp, heard, sendVars,
                 audioData, channelData>>

Decode ==
  /\ pcmData # <<>> /\ channelData = <<>>
  /\ channelData' = SamplesOfPcm(pcmData)
  /\ trace' = << <<"decode">> >>
  /\ UNCHANGED <<appVars, refVars, domVars, svcVars, connVars, played, lastPlayOp, heard, sendVars,
                 audioData, pcmData>>

\* ------------------------------------------------------ service: senders
MaxSends == 3         \* audio blocks and image frames submitted in a run

\* The blocks the capture tap hands over: one, two and three samples.
AudioBlocks == {<<0>>, <<-1, FullScale - 1>>, <<SampleQ + 1, -FullScale, 0>>}

\* A streamAudio without its guard on the session handle.
streamAudioAlways(p, k, block) ==
  << <<"audio", k, [data |-> PcmOfSamples(block), mimeType |-> "audio/pcm;rate=16000"]>> >>

\* streamAudio(audioData), the k-th submission: the reaction it registers on
\* sessionPromise p, none when p is null.
streamAudio(p, k, block) ==
  IF p = 0 THEN <<>>
  ELSE << <<"audio", k, [data |-> PcmOfSamples(block),
                         mimeType |-> "audio/pcm;rate=16000"]>> >>

\* streamImageFrame(imageDataBase64), the k-th submission.
streamImageFrame(p, k) ==
  IF p = 0 THEN <<>>
  ELSE << <<"image", k, [mimeType |-> "image/jpeg"]>> >>

\* The calls of sessionPromise.then a sender makes.
RECURSIVE RegisterEvents(_, _)
RegisterEvents(p, items) ==
  IF items = <<>> THEN <<>>
  ELSE << <<"sessionPromise.then", p, Head(items)>> >> \o RegisterEvents(p, Tail(items))

\* A sender called in a task of its own whose first event is `first`.
Sender(first, items) ==
  /\ sendSeq < MaxSends
  /\ ThenFits(promise, thens, sessionPromise, items)
  /\ sendSeq' = sendSeq + 1
  /\ conn' = ThenConn(promise, conn, sessionPromise, items)
  /\ thens' = ThenThens(promise, thens, sessionPromise, items)
  /\ received' = ThenReceived(promise, received, sessionPromise, items)
  /\ trace' = <<first>> \o RegisterEvents(sessionPromise, items) \o << <<"return">> >>
                \o ThenEvents(promise, conn, sessionPromise, items)
  /\ UNCHANGED <<appVars, refVars, domVars, svcVars, nextSession, promise, played,
                 lastPlayOp, heard, pcmVars>>

\* onaudioprocess of script processor c, connected and in a running context:
\* the block is handed to streamAudio.
OnAudioProcess(c, block) ==
  /\ c \in tapConnected /\ c \in srcConnected /\ inCtx[c] = "running"
  /\ Sender(<<"onaudioprocess", c, block>>,
            streamAudio(sessionPromise, sendSeq + 1, block))

\* A tick of frame timer t: with a video frame to read it hands the frame to
\* streamImageFrame, without one it returns.
FrameTick(t, ready) ==
  /\ t \in timers
  /\ Sender(<<"frameTick", t, ready>>,
            IF ready THEN streamImageFrame(sessionPromise, sendSeq + 1) ELSE <<>>)

\* The video element as a tick finds it: videoRef.current may be null, and
\* readyState runs from 0 to 4 (2 is HAVE_CURRENT_DATA).
Videos ==
  {[present |-> FALSE, paused |-> FALSE, ended |-> FALSE, readyState |-> 0]}
    \cup [present : {TRUE}, paused : BOOLEAN, ended : BOOLEAN, readyState : {1, 2, 4}]

\* A tick that goes on with a paused video.
FrameSkipsNotPaused(v) == ~v.present \/ v.ended \/ v.readyState < 2

\* The early returns of the interval callback.  The 2d context of a canvas
\* that was just created is never null.
FrameSkips(v) == ~v.present \/ v.paused \/ v.ended \/ v.readyState < 2

\* The interval callback of timer t with the video element in state v.
FrameTimer(t, v) == FrameTick(t, ~FrameSkips(v))

\* ------------------------------------------------------------ specifications
\* The setup of the component, up to the READY screen.
Setup ==
  \/ Initialize
  \/ \E k \in BOOLEAN : HandleApiKeySubmit(k)
  \/ \E g \in BOOLEAN : PermissionResult(g)

\* The life of sessions: every handler but onMessage.
Lifecycle ==
  \/ HandleSessionStart
  \/ HandleStopButtonClick
  \/ \E s \in Sessions : OnOpen(s)
  \/ \E s \in Sessions : PromiseFulfil(s)
  \/ \E s \in Sessions, e \in ErrClasses : PromiseReject(s, e)
  \/ \E s \in Sessions, e \in ErrClasses : OnError(s, e)
  \/ \E s \in Sessions : OnClose(s)

Next ==
  \/ Setup
  \/ Lifecycle
  \/ Unmount
  \/ \E s \in Sessions : InputContextClosed(s)
  \/ \E s \in Sessions : OutputContextClosed(s)

Spec == Init /\ [][Next]_vars

\* Sessions that receive tool calls.
NextTools ==
  \/ Setup
  \/ HandleSessionStart
  \/ HandleStopButtonClick
  \/ \E s \in Sessions : OnOpen(s)
  \/ \E s \in Sessions : PromiseFulfil(s)
  \/ \E s \in Sessions : OnClose(s)
  \/ \E s \in Sessions, m \in ToolMessages : OnMessage(s, m)

SpecTools == Init /\ [][NextTools]_vars

\* Sessions whose capture tap and frame timer submit realtime input, and that
\* receive a tool call.
SendMessages == {Message(0, FALSE, <<>>, <<>>, <<Call(1, "clearDetectedObjects", <<>>)>>, FALSE)}

NextSend ==
  \/ Setup
  \/ HandleSessionStart
  \/ HandleStopButtonClick
  \/ \E s \in Sessions : OnOpen(s)
  \/ \E s \in Sessions : PromiseFulfil(s)
  \/ \E c \in Sessions, b \in AudioBlocks : OnAudioProcess(c, b)
  \/ \E t \in Sessions, v \in Videos : FrameTimer(t, v)
  \/ \E s \in Sessions, m \in SendMessages : OnMessage(s, m)

SpecSend == Init /\ [][NextSend]_vars

\* A session whose tool calls draw detections that the user selects.
NextDetect ==
  \/ Setup
  \/ HandleSessionStart
  \/ \E s \in Sessions : OnOpen(s)
  \/ \E s \in Sessions : PromiseFulfil(s)
  \/ \E s \in Sessions, m \in ToolMessages : OnMessage(s, m)
  \/ \E o \in Objects \cup {"null"} : HandleClick(o)

SpecDetect == Init /\ [][NextDetect]_vars

\* Sessions that receive transcription deltas, grounding chunks and turn
\* completions.
TextMessages ==
  {Message(0, FALSE, t, g, <<>>, tc) :
     t \in {<<>>, <<"a">>}, g \in {<<>>, <<"g">>}, tc \in BOOLEAN}
    \ {Message(0, FALSE, <<>>, <<>>, <<>>, FALSE)}

NextText ==
  \/ Setup
  \/ HandleSessionStart
  \/ HandleStopButtonClick
  \/ \E s \in Sessions : OnOpen(s)
  \/ \E s \in Sessions : PromiseFulfil(s)
  \/ \E s \in Sessions, m \in TextMessages : OnMessage(s, m)

SpecText == Init /\ [][NextText]_vars

\* A session that receives audio and interruptions while its clock runs.
PlayMessages ==
  {Message(a, i, <<>>, <<>>, <<>>, FALSE) : a \in 0..MaxDur, i \in BOOLEAN}
    \ {Message(0, FALSE, <<>>, <<>>, <<>>, FALSE)}

NextPlay ==
  \/ Setup
  \/ HandleSessionStart
  \/ \E s \in Sessions : OnOpen(s)
  \/ \E s \in Sessions : PromiseFulfil(s)
  \/ \E s \in Sessions, m \in PlayMessages : OnMessage(s, m)
  \/ \E i \in 1..MaxChunks : SourceEnded(i)
  \/ ClockTick

SpecPlay == Init /\ [][NextPlay]_vars

\* Sessions that play audio and are stopped by the user.
StopMessages == {Message(1, FALSE, <<>>, <<>>, <<>>, FALSE)}

NextPlayStop ==
  \/ Setup
  \/ HandleSessionStart
  \/ HandleStopButtonClick
  \/ \E s \in Sessions : OnOpen(s)
  \/ \E s \in Sessions : PromiseFulfil(s)
  \/ \E s \in Sessions, m \in StopMessages : OnMessage(s, m)
  \/ \E i \in 1..MaxChunks : SourceEnded(i)
  \/ ClockTick

SpecPlayStop == Init /\ [][NextPlayStop]_vars

\* Sessions that receive audio chunks as transport text, also after they
\* were stopped.
NextChunk ==
  \/ Setup
  \/ HandleSessionStart
  \/ HandleStopButtonClick
  \/ \E c \in Sessions : OutputContextClosed(c)
  \/ \E s \in Sessions : OnOpen(s)
  \/ \E s \in Sessions : PromiseFulfil(s)
  \/ \E s \in Sessions, t \in ChunkTexts : OnChunk(s, t)

SpecChunk == Init /\ [][NextChunk]_vars

\* The codec on every block.
InitCodec == InitApp /\ audioData \in Blocks /\ pcmData = <<>> /\ channelData = <<>>

NextCodec ==
  \/ Encode
  \/ Decode

SpecCodec == InitCodec /\ [][NextCodec]_vars

\* ================================================================= properties
\* Events of a task.
EventIdx(tr, names) == {i \in 1..Len(tr) : tr[i][1] \in names}
ToolSends(id) ==
  {i \in EventIdx(trace, {"send"}) : trace[i][3][1] = "tool" /\ trace[i][3][2] = id}
CallIdx(id) == FirstIdx(LAMBDA e : e[1] = "functionCall" /\ e[2] = id)
Registered(id) == {i \in EventIdx(trace, {"sendToolResponse"}) : trace[i][2] = id}
ReturnIdx == FirstIdx(LAMBDA e : e[1] = "return")
StatusIdx == FirstIdx(LAMBDA e : e[1] = "setStatus")
Range(f) == {f[i] : i \in DOMAIN f}

\* ------------------------------------------------------------------------ C1
\* C1, as stated: for every function call of an inbound message, whatever its
\* name, exactly one tool result carrying the call's id is sent on the same
\* session, after the call was taken up and before the next call of the
\* message is taken up.
C1_ResultBeforeNextCall ==
  Ran("onMessage") =>
    LET s == trace[1][2]
        calls == trace[1][3].calls
    IN  \A k \in 1..Len(calls) :
          LET acks == {i \in ToolSends(calls[k].id) : trace[i][2] = s}
          IN  /\ Cardinality(acks) = 1
              /\ \A i \in acks :
                   /\ CallIdx(calls[k].id) < i
                   /\ k < Len(calls) => i < CallIdx(calls[k + 1].id)

\* C1, amended: a call named displayDetectedObjects or clearDetectedObjects
\* makes exactly one sendToolResponse call with its id before the next call
\* is taken up, a call of any other name makes none.  With a session handle
\* whose promise is fulfilled the result is sent once, on the session of the
\* handle, after the handler has returned and in the order of the calls; with
\* a handle whose promise is pending it waits on the handle; without a handle,
\* or for another name, no result is sent.
C1_KnownToolsAcknowledged ==
  Ran("onMessage") =>
    LET calls == trace[1][3].calls
        p == sessionPromise
    IN  \A k \in 1..Len(calls) :
          LET fc == calls[k]
              acks == ToolSends(fc.id)
              regs == Registered(fc.id)
          IN  /\ IF KnownTool(fc)
                 THEN /\ Cardinality(regs) = 1
                      /\ \A i \in regs :
                           /\ CallIdx(fc.id) < i
                           /\ k < Len(calls) => i < CallIdx(calls[k + 1].id)
                 ELSE regs = {}
              /\ IF KnownTool(fc) /\ p # 0 /\ promise[p] = "fulfilled"
                 THEN /\ Cardinality(acks) = 1
                      /\ \A i \in acks : trace[i][2] = p /\ i > ReturnIdx
                      /\ \A j \in 1..(k - 1) :
                           \A i \in acks, h \in ToolSends(calls[j].id) : h < i
                 ELSE acks = {}
              /\ (KnownTool(fc) /\ p # 0 /\ promise[p] = "pending")
                   => <<"tool", fc.id, fc.name>> \in Range(thens[p])

\* Two calls of known names were answered on a fulfilled handle.
C1_TwoCallsAnswered ==
  /\ Ran("onMessage")
  /\ sessionPromise # 0
  /\ promise[sessionPromise] = "fulfilled"
  /\ Len(trace[1][3].calls) = 2
  /\ \A k \in 1..2 : KnownTool(trace[1][3].calls[k])
  /\ ToolSends(1) # {} /\ ToolSends(2) # {}

\* ------------------------------------------------------------------------ C2
RECURSIVE SumDur(_, _)
SumDur(pl, n) == IF n = 0 THEN 0 ELSE pl[n].dur + SumDur(pl, n - 1)

\* C2: within a session no two sources that were scheduled and not stopped
\* overlap in time, and while none was stopped the i-th starts no earlier
\* than the first one's start plus the durations of the chunks before it.
C2_NoOverlap ==
  /\ \A i, j \in 1..Len(played) :
       (i < j /\ played[i].ctx = played[j].ctx
          /\ played[i].stopAt = -1 /\ played[j].stopAt = -1)
         => played[j].begin >= played[i].begin + played[i].dur
  /\ (\A i \in 1..Len(played) : played[i].stopAt = -1 /\ played[i].ctx = played[1].ctx)
       => \A i \in 1..Len(played) :
            played[i].begin >= played[1].begin + SumDur(played, i - 1)

\* ------------------------------------------------------------------------ C3
\* C3: when the last call made to the scheduler was stopAudioPlayback, the
\* source of the next playAudioResponse is started at a time that is no
\* earlier than the clock, whatever the cursor was before the interruption.
C3_RestartAtClock ==
  [][(lastPlayOp = "stopAudioPlayback" /\ Len(played') = Len(played) + 1)
       => played'[Len(played')].when >= now']_vars

\* ------------------------------------------------------------------------ C4
Abs(x) == IF x >= 0 THEN x ELSE -x

\* C4: a block encoded and decoded again has the length of the original, and
\* every sample differs from the original by at most 1/32768, the samples
\* 1.0 and -1.0 included.
C4_RoundTrip ==
  channelData # <<>> =>
    /\ Len(channelData) = Len(audioData)
    /\ \A i \in 1..Len(audioData) : Abs(channelData[i] - audioData[i]) <= SampleQ

\* ------------------------------------------------------------------------ C5
StopCallers == {"handleStopButtonClick", "unmount", "onError", "catch"}
CallsStop(tr) ==
  Len(tr) > 0 /\ (tr[1][1] \in StopCallers \/ (tr[1][1] = "onClose" /\ tr[1][4]))
ReleaseNames == {"clearInterval", "session.close", "outputAudioContext.close",
                 "scriptProcessor.disconnect", "mediaStreamSource.disconnect",
                 "inputAudioContext.close"}

\* C5: a task that calls handleSessionStop right after a task that called it,
\* or before any session was ever started, releases nothing and changes no
\* resource: no error is raised and every resource is released at most once.
C5_StopIdempotent ==
  [][(CallsStop(trace') /\ (CallsStop(trace) \/ nextSession = 1))
       => /\ EventIdx(trace', ReleaseNames) = {}
          /\ UNCHANGED <<refVars, timers, tapConnected, srcConnected, inCtx,
                         sessionPromise, outCtx>>
          /\ \A s \in Sessions : Len(thens'[s]) <= Len(thens[s])]_vars

\* The component was unmounted, which stops, before any session was started.
C5_StopBeforeAnySession ==
  /\ Ran("unmount")
  /\ nextSession = 1
  /\ Len(trace) = 1

\* ------------------------------------------------------------------------ C6
\* C6: after the stop button, in whatever state the session was, no
\* connection is left open or opening without its close requested, and no
\* frame timer and no capture tap is left running.
C6_StopFromAnyState ==
  Ran("handleStopButtonClick") =>
    /\ \A s \in Sessions :
         conn[s] \in {"opening", "open"} => <<"close">> \in Range(thens[s])
    /\ timers = {}
    /\ tapConnected = {}

\* ------------------------------------------------------------------------ C7
\* C7: at most one connection is opening or open, and at most one output
\* AudioContext is unreleased.
C7_OneSession ==
  /\ Cardinality({s \in Sessions : conn[s] \in {"opening", "open"}}) <= 1
  /\ Cardinality({c \in Sessions : outCtx[c] = "running"}) <= 1

\* ------------------------------------------------------------------------ C8
\* C8: the onClose of a connection that was closed locally changes no status
\* and tears nothing down, also when another session was opened meanwhile.
C8_LocalCloseIsSilent ==
  (Ran("onClose") /\ trace[1][3] = "closing") => Len(trace) = 1

\* ------------------------------------------------------------------------ C9
\* C9: when onError has run, before or after onOpen, the frame timer is
\* cleared, the connection's handle dropped and its close requested, the
\* output clock released and the capture tap disconnected, all of it before
\* the status was set.
C9_ErrorTearsDown ==
  Ran("onError") =>
    /\ timers = {} /\ frameIntervalRef = 0
    /\ sessionPromise = 0
    /\ conn[trace[1][2]] \notin {"opening", "open", "failing"}
         \/ <<"close">> \in Range(thens[trace[1][2]])
    /\ outputAudioContext # 0 => outCtx[outputAudioContext] # "running"
    /\ scriptProcessorRef = 0 /\ scriptProcessorRef \notin tapConnected
    /\ \A i \in EventIdx(trace, ReleaseNames) : i < StatusIdx

\* ----------------------------------------------------------------------- C10
\* C10: an onClose that finds the session active clears the frame timer,
\* drops the session handle, releases the output clock and the capture
\* context, disconnects the tap and the source, marks the session inactive
\* and leaves the status READY.
C10_RemoteCloseStops ==
  (Ran("onClose") /\ trace[1][4]) =>
    /\ status = "READY"
    /\ ~isSessionActiveRef
    /\ timers = {} /\ frameIntervalRef = 0
    /\ sessionPromise = 0
    /\ conn[trace[1][2]] = "closed"
    /\ outputAudioContext # 0 => outCtx[outputAudioContext] # "running"
    /\ scriptProcessorRef = 0 /\ mediaStreamSourceRef = 0
    /\ inputAudioContextRef # 0 => inCtx[inputAudioContextRef] # "running"
    /\ StatusIdx # 0 /\ trace[StatusIdx][2] = "READY"

\* An open connection was closed by the remote side while active.
C10_RemoteCloseWhileActive ==
  /\ Ran("onClose")
  /\ trace[1][3] = "open"
  /\ trace[1][4]
  /\ \E i \in EventIdx(trace, {"clearInterval"}) : trace[i][2] = trace[1][2]
  /\ status = "READY"

\* ----------------------------------------------------------------------- C11
\* The three-way classification of a failure message.
ThreeWay(e) ==
  IF e \in {"API key not valid", "Requested entity was not found"} THEN "SELECT_KEY"
  ELSE IF e = "quota" THEN "QUOTA_ERROR" ELSE "ERROR"

\* C11: a failure reported through onError and one thrown from
\* startLiveSession alike leave the status SELECT_KEY for a credential
\* message, QUOTA_ERROR for a quota message and ERROR for any other, and the
\* handler sets the status once.
C11_ThreeWayOnBothPaths ==
  (Ran("onError") \/ Ran("catch")) =>
    /\ status = ThreeWay(trace[1][3])
    /\ Cardinality(EventIdx(trace, {"setStatus"})) = 1

\* ----------------------------------------------------------------------- C12
\* The task called streamAudio, streamImageFrame or sendToolResponse.
SenderTask(tr) ==
  /\ Len(tr) > 0
  /\ \/ tr[1][1] = "onaudioprocess"
     \/ tr[1][1] = "frameTick" /\ tr[1][3]
     \/ tr[1][1] = "onMessage" /\ \E k \in 1..Len(tr[1][3].calls) : KnownTool(tr[1][3].calls[k])

\* C12: a task that calls streamAudio, streamImageFrame or sendToolResponse
\* while no session handle exists raises no error (it does not reach
\* sessionPromise.then), sends nothing on any connection and leaves the
\* handle, the cursor, the live-set and every connection as they were.
C12_SendersNoOpWithoutHandle ==
  [][(sessionPromise = 0 /\ SenderTask(trace'))
       => /\ EventIdx(trace', {"sessionPromise.then", "send", "session.close"}) = {}
          /\ UNCHANGED <<sessionPromise, nextStartTime, sources, conn, thens,
                         received>>]_vars

\* The capture tap handed a block to streamAudio while no handle existed.
C12_BlockWithoutHandle ==
  /\ Ran("onaudioprocess")
  /\ sessionPromise = 0
  /\ trace = << trace[1], <<"return">> >>

\* ----------------------------------------------------------------------- C13
OfKind(log, kind) == SelectSeq(log, LAMBDA e : e[1] = kind)
Increasing(q) == \A i, j \in 1..Len(q) : i < j => q[i][2] < q[j][2]

\* C13: every connection is handed the audio blocks in the order of their
\* submission, each at most once, and likewise the image frames; after its
\* close call it is handed nothing.
C13_OutboundOrder ==
  \A s \in Sessions :
    /\ Increasing(OfKind(received[s], "audio"))
    /\ Increasing(OfKind(received[s], "image"))
    /\ \A i, j \in 1..Len(received[s]) :
         (i < j /\ received[s][i][1] = "close") => received[s][j][1] = "close"
    /\ \A t \in Sessions \ {s} :
         \A i \in 1..Len(received[s]), j \in 1..Len(received[t]) :
           received[s][i][1] # "close" => received[s][i] # received[t][j]

\* Two blocks submitted while the promise was pending were handed over when
\* it was fulfilled.
C13_QueuedBlocksDelivered ==
  /\ Ran("fulfilled")
  /\ Cardinality({i \in EventIdx(trace, {"send"}) : trace[i][3][1] = "audio"}) >= 2

\* ----------------------------------------------------------------------- C16
\* C16: with a session handle whose promise is fulfilled, one call of
\* streamAudio with a block of N samples hands exactly one payload to the
\* handle's connection, of mimeType audio/pcm;rate=16000, whose text decodes
\* to 2N bytes: for each sample in order its 16-bit value, low byte first.
C16_OnePcmPayload ==
  (Ran("onaudioprocess") /\ sessionPromise # 0 /\ promise[sessionPromise] = "fulfilled") =>
    LET block == trace[1][3]
        sends == EventIdx(trace, {"send"})
    IN  /\ Cardinality(sends) = 1
        /\ \A i \in sends :
             LET item == trace[i][3]
                 bytes == decode(item[3].data)
             IN  /\ trace[i][2] = sessionPromise
                 /\ item[1] = "audio"
                 /\ item[3].mimeType = "audio/pcm;rate=16000"
                 /\ Len(bytes) = 2 * Len(block)
                 /\ \A k \in 1..Len(block) :
                      bytes[2 * k - 1] + 256 * bytes[2 * k]
                        = FloatToInt16(block[k]) % 65536

\* A block of three samples was handed to an open session.
C16_ThreeSamplesSent ==
  /\ Ran("onaudioprocess")
  /\ Len(trace[1][3]) = 3
  /\ EventIdx(trace, {"send"}) # {}

\* ----------------------------------------------------------------------- C14
\* The last call of a message that names a detection tool, 0 if none.
LastKnown(calls) ==
  LET K == {k \in 1..Len(calls) : KnownTool(calls[k])}
  IN  IF K = {} THEN 0 ELSE CHOOSE k \in K : \A j \in K : j <= k

\* C14: after a message with tool calls the detection set is exactly the
\* detections of the last displayDetectedObjects call, or empty when a
\* clearDetectedObjects call came last, whatever the set held before; after a
\* message with a clearDetectedObjects call that no click followed the
\* selection is null.
C14_DetectionSetReplaced ==
  Ran("onMessage") =>
    LET calls == trace[1][3].calls
        k == LastKnown(calls)
    IN  /\ k # 0 =>
             detectedObjects = (IF calls[k].name = "displayDetectedObjects"
                                THEN calls[k].detections ELSE <<>>)
        /\ (\E j \in 1..Len(calls) : calls[j].name = "clearDetectedObjects")
             => selectedObject = "null"

\* A display call with one detection, after an earlier call of the message
\* had displayed two.
C14_SecondDisplayWins ==
  /\ Ran("onMessage")
  /\ Len(trace[1][3].calls) = 2
  /\ trace[1][3].calls[1].name = "displayDetectedObjects"
  /\ trace[1][3].calls[1].detections = <<"pen", "cup">>
  /\ trace[1][3].calls[2].name = "displayDetectedObjects"
  /\ detectedObjects = <<"cup">>

\* ----------------------------------------------------------------------- C15
\* C15: after a message with turnComplete the transcript buffer, the
\* exposed transcript and the reference list are empty, also when the message
\* carries a transcription delta or grounding chunks.
C15_TurnCompleteResets ==
  (Ran("onMessage") /\ trace[1][3].turnComplete) =>
    /\ transcriptionRef = <<>>
    /\ transcription = <<>>
    /\ groundingChunks = <<>>

\* A turn completion that came with a delta and with grounding chunks.
C15_TurnCompleteWithDelta ==
  /\ Ran("onMessage")
  /\ trace[1][3].turnComplete
  /\ trace[1][3].text # <<>>
  /\ trace[1][3].grounding # <<>>
  /\ transcriptionRef = <<>>

\* ----------------------------------------------------------------------- C17
\* C17: at most one frame timer is active in every state, and after a task
\* that called handleSessionStop none is.
C17_OneFrameTimer ==
  /\ Cardinality(timers) <= 1
  /\ CallsStop(trace) => timers = {}

\* A connection opened while the timer of another was active.
C17_TimerRestarted ==
  /\ Ran("onOpen")
  /\ EventIdx(trace, {"clearInterval"}) # {}
  /\ timers = {trace[1][2]}

\* ----------------------------------------------------------------------- C18
\* The task is a callback (message, error, close) of connection s.
CallbackOf(tr, s) ==
  Len(tr) > 0 /\ tr[1][1] \in {"onMessage", "onError", "onClose"} /\ tr[1][2] = s

\* C18: when a second session was started while the first had not been
\* closed, no later callback of the first changes the second's handle,
\* cursor, live-set, capture tap or frame timer.
C18_SecondSessionIndependent ==
  [][\A s \in Sessions :
       (/\ sessionPromise # 0 /\ s < sessionPromise
        /\ conn[s] \in {"opening", "open"}
        /\ <<"close">> \notin Range(thens[s])
        /\ CallbackOf(trace', s))
       => UNCHANGED <<sessionPromise, nextStartTime, sources, scriptProcessorRef,
                      tapConnected, frameIntervalRef, timers>>]_vars

\* ----------------------------------------------------------------------- C19
\* The lifecycle state of a connection: a socket that was never made, has
\* failed, is being closed or has closed is CLOSED.
Life(c) == IF c = "opening" THEN "OPENING" ELSE IF c = "open" THEN "OPEN" ELSE "CLOSED"
Handler(tr) == IF Len(tr) > 0 THEN tr[1][1] ELSE "none"
\* Tasks in which a connection's close() runs, or its error or close arrives.
ClosingTasks == {"handleStopButtonClick", "unmount", "fulfilled", "catch",
                 "onError", "onClose"}

\* C19, as stated: a connection becomes OPENING only from CLOSED, in
\* startLiveSession; OPEN only from OPENING, in onOpen; CLOSED only from
\* OPEN, through a local stop or a remote close or error.
C19_ThreeTransitions ==
  [][\A s \in Sessions :
       LET a == Life(conn[s])
           b == Life(conn'[s])
       IN  a # b =>
             \/ a = "CLOSED" /\ b = "OPENING" /\ Handler(trace') = "handleSessionStart"
             \/ a = "OPENING" /\ b = "OPEN" /\ Handler(trace') = "onOpen"
             \/ a = "OPEN" /\ b = "CLOSED" /\ Handler(trace') \in ClosingTasks]_vars

\* C19, amended: beside these three, a connection becomes CLOSED from
\* OPENING when the attempt fails: the promise of connect() is rejected or
\* onError arrives before onOpen.
C19_TransitionsWithFailedOpen ==
  [][\A s \in Sessions :
       LET a == Life(conn[s])
           b == Life(conn'[s])
       IN  a # b =>
             \/ a = "CLOSED" /\ b = "OPENING" /\ Handler(trace') = "handleSessionStart"
             \/ a = "OPENING" /\ b = "OPEN" /\ Handler(trace') = "onOpen"
             \/ a = "OPEN" /\ b = "CLOSED" /\ Handler(trace') \in ClosingTasks
             \/ a = "OPENING" /\ b = "CLOSED" /\ Handler(trace') \in {"catch", "onError"}
                  /\ trace'[1][2] = s]_vars

\* A connection attempt failed before the connection had opened.
C19_OpenFailed ==
  /\ Ran("catch")
  /\ conn[trace[1][2]] = "closed"
  /\ promise[trace[1][2]] = "rejected"

\* ----------------------------------------------------------------------- C20
\* C20: when closeLiveSession has run, every source of the live-set was
\* stopped and the live-set is empty, the connection's close was requested
\* and the handle dropped, and the output clock is released.
C20_TeardownStopsSources ==
  (CallsStop(trace) /\ EventIdx(trace, {"sessionPromise=null", "outputAudioContext.close"}) # {})
    => /\ sources = {}
       /\ \A i \in 1..Len(played) :
            played[i].stopAt # -1 \/ now >= played[i].begin + played[i].dur
       /\ sessionPromise = 0
       /\ outputAudioContext # 0 => outCtx[outputAudioContext] # "running"

\* ----------------------------------------------------------------------- C21
\* C21: after a message that carried the interruption flag, no chunk handed
\* to playAudioResponse before stopAudioPlayback ran, the chunk of the same
\* message included, is live or left sounding: the live-set is empty, the
\* cursor is at zero and every source started so far was stopped or has ended.
C21_InterruptStopsAll ==
  (Ran("onMessage") /\ trace[1][3].interrupted)
    => /\ sources = {}
       /\ nextStartTime = 0
       /\ \A i \in 1..Len(played) :
            played[i].stopAt # -1 \/ now >= played[i].begin + played[i].dur

\* ----------------------------------------------------------------------- C22
\* C22: no source is started in the past: the argument of every source.start
\* is no earlier than the clock at the moment of the call, so every source
\* begins to sound at the time it was scheduled for.
C22_NoPastStart ==
  \A i \in 1..Len(played) : played[i].when = played[i].begin

\* ----------------------------------------------------------------------- C23
\* C23: the live-set holds exactly the sources that were started on the
\* output clock of the current session and were neither stopped nor have
\* played to their end.
C23_LiveSetExact ==
  /\ \A i \in sources :
       /\ i \in 1..Len(played)
       /\ played[i].ctx = outputAudioContext
       /\ played[i].stopAt = -1
  /\ \A i \in 1..Len(played) :
       (played[i].ctx = outputAudioContext /\ i \notin sources)
         => played[i].stopAt # -1 \/ now >= played[i].begin + played[i].dur

\* ----------------------------------------------------------------------- C24
\* C24: right after every startLiveSession the cursor is zero and the
\* live-set is empty, whatever the session before enqueued.
C24_FreshPlaybackState ==
  (Ran("handleSessionStart") /\ EventIdx(trace, {"startLiveSession"}) # {})
    => nextStartTime = 0 /\ sources = {}

\* ----------------------------------------------------------------------- C25
\* A transport text is malformed when it holds a character that is neither
\* one of the 64 of the alphabet nor the padding, or when the bytes it
\* carries are odd in number.
DataChars(text) == SelectSeq(text, LAMBDA c : c \in 0..63)
InvalidChars(text) == \E i \in 1..Len(text) : text[i] \notin 0..64
OddBytes(text) == ((Len(DataChars(text)) * 6) \div 8) % 2 = 1
Malformed(text) == InvalidChars(text) \/ OddBytes(text)

\* What a failed playAudioResponse leaves: an error, no source started, no
\* source added to the live-set, and a cursor that was at most raised to the
\* clock, not advanced by a duration.
FailsLoudly ==
  /\ EventIdx(trace', {"playAudioResponse.rejected"}) # {}
  /\ EventIdx(trace', {"source.start"}) = {}
  /\ Len(played') = Len(played)
  /\ sources' \subseteq sources
  /\ nextStartTime' = Max(nextStartTime, now)

NotPlayable(v) == ~v.present \/ v.paused \/ v.ended \/ v.readyState < 2
ImageItems(tr) ==
  {i \in EventIdx(tr, {"sessionPromise.then"}) :
     tr[i][3][1] = "image" /\ tr[i][3][3].mimeType = "image/jpeg"}

C26_FrameSent ==
  /\ Ran("frameTick") /\ trace[1][3]
  /\ EventIdx(trace, {"send"}) # {}

\* ----------------------------------------------------------------------- C27
TapDisconnects(tr) ==
  EventIdx(tr, {"scriptProcessor.disconnect", "mediaStreamSource.disconnect"})
ContextCloses(tr) == EventIdx(tr, {"inputAudioContext.close"})

\* C27: a task that calls handleSessionStop disconnects the script processor
\* and the media stream source before it closes the capture context; each
\* disconnect is made on a node that is connected, a close only on a context
\* that is running and at most once; when capture was never started or is
\* torn down, it makes none of these calls.
C27_TapBeforeContext ==
  [][CallsStop(trace') =>
       /\ \A i \in TapDisconnects(trace'), j \in ContextCloses(trace') : i < j
       /\ \A i \in EventIdx(trace', {"scriptProcessor.disconnect"}) :
            trace'[i][2] \in tapConnected
       /\ \A i \in EventIdx(trace', {"mediaStreamSource.disconnect"}) :
            trace'[i][2] \in srcConnected
       /\ \A j \in ContextCloses(trace') :
            trace'[j][2] # 0 /\ inCtx[trace'[j][2]] = "running"
       /\ Cardinality(ContextCloses(trace')) <= 1
       /\ (tapConnected = {} /\ srcConnected = {}
             /\ \A c \in Sessions : inCtx[c] # "running")
            => TapDisconnects(trace') = {} /\ ContextCloses(trace') = {}]_vars

\* A stop that disconnected the tap and closed the capture context.
C27_CaptureTornDown ==
  /\ CallsStop(trace)
  /\ Cardinality(TapDisconnects(trace)) = 2
  /\ ContextCloses(trace) # {}

\* ----------------------------------------------------------------------- C28
CredentialErrors == {"API key not valid", "Requested entity was not found"}
CredentialFailure(tr) ==
  Len(tr) > 0 /\ tr[1][1] \in {"onError", "catch"} /\ tr[1][3] \in CredentialErrors

\* C28: after an onError or a catch with a credential failure the status is
\* SELECT_KEY, the stored key is removed and the held key cleared; and while
\* no key is stored or held, startLiveSession is not called and a key comes
\* to be held or stored only by the submission of a non-empty key.
C28_CredentialFailure ==
  [][/\ CredentialFailure(trace')
          => status' = "SELECT_KEY" /\ ~storedKey' /\ ~apiKey'
     /\ (~storedKey /\ ~apiKey)
          => /\ EventIdx(trace', {"startLiveSession"}) = {}
             /\ (storedKey' \/ apiKey')
                  => trace' = << <<"handleApiKeySubmit", TRUE>> >>]_vars

\* A session that had opened failed with a credential error.
C28_KeyRejectedWhileOpen ==
  /\ Ran("onError") /\ trace[1][3] = "API key not valid"
  /\ EventIdx(trace, {"session.close"}) # {}
  /\ status = "SELECT_KEY" /\ ~apiKey

\* ----------------------------------------------------------------------- C29
KnownName(fc) == fc.name \in {"displayDetectedObjects", "clearDetectedObjects"}
ToolEvents(tr, names, id) == {i \in EventIdx(tr, names) : tr[i][2] = id}
ToolItems(tr, names, id) ==
  {i \in EventIdx(tr, names) : tr[i][3][1] = "tool" /\ tr[i][3][2] = id}

\* C29: in an onMessage, a call of unknown name is taken up, registers and
\* sends no tool result, and does not show in the detection set or the
\* selection: these are what the known calls of the message alone leave;
\* every known call of the message, also after an unknown one, is answered.
C29_UnknownToolIgnored ==
  [][(Len(trace') > 0 /\ trace'[1][1] = "onMessage") =>
       LET calls == trace'[1][3].calls
           known == SelectSeq(calls, KnownName)
       IN  /\ \A k \in 1..Len(calls) :
                /\ ToolEvents(trace', {"functionCall"}, calls[k].id) # {}
                /\ ~KnownName(calls[k])
                     => /\ ToolEvents(trace', {"sendToolResponse"}, calls[k].id) = {}
                        /\ ToolItems(trace', {"send"}, calls[k].id) = {}
                /\ KnownName(calls[k])
                     => ToolEvents(trace', {"sendToolResponse"}, calls[k].id) # {}
           /\ known = <<>> => UNCHANGED <<detectedObjects, selectedObject>>
           /\ known # <<>> =>
                /\ detectedObjects' = known[Len(known)].detections
                /\ selectedObject' =
                     IF \E k \in 1..Len(known) : known[k].name = "clearDetectedObjects"
                     THEN "null" ELSE selectedObject]_vars

\* A message whose first call was of unknown name and whose second was a
\* display call, handled while a detection was selected.
C29_UnknownThenDisplay ==
  /\ Ran("onMessage")
  /\ Len(trace[1][3].calls) = 2
  /\ trace[1][3].calls[1].name = "other"
  /\ trace[1][3].calls[2].name = "displayDetectedObjects"
  /\ detectedObjects = trace[1][3].calls[2].detections
  /\ selectedObject # "null"
  /\ ToolItems(trace, {"send"}, 2) # {}

\* ----------------------------------------------------------------------- C30
\* C30: what a sender is handed while the promise of the session handle is
\* still pending is dropped: nothing is queued on the handle, and when the
\* promise is fulfilled no audio block, image frame or tool result is sent.
C30_NotYetOpenDropped ==
  [][/\ (SenderTask(trace') /\ sessionPromise # 0
           /\ promise[sessionPromise] = "pending")
          => thens'[sessionPromise] = thens[sessionPromise]
     /\ Handler(trace') = "fulfilled" => EventIdx(trace', {"send"}) = {}]_vars

\* ----------------------------------------------------------------------- C31
\* C31: after every onMessage the transcript shown is the concatenation, in
\* the order of arrival, of the deltas received since the later of the start
\* of the session and the last turn completion, and the reference chunks of
\* a message are the reference list.
C31_TranscriptIsConcatenation ==
  Ran("onMessage") =>
    /\ transcription = heard
    /\ (trace[1][3].grounding # <<>> /\ ~trace[1][3].turnComplete)
         => groundingChunks = trace[1][3].grounding

\* The same for the messages that carry a delta or complete the turn.
C31_TranscriptOnDelta ==
  (Ran("onMessage") /\ (trace[1][3].text # <<>> \/ trace[1][3].turnComplete)) =>
    /\ transcription = heard
    /\ (trace[1][3].grounding # <<>> /\ ~trace[1][3].turnComplete)
         => groundingChunks = trace[1][3].grounding

ReadyHasStream == status = "READY" => stream

\* ----------------------------------------------------------------------- C33
\* C33: from a stop (the handle is dropped) to the next start, the detection
\* set, the selection, the transcript shown and the reference list are
\* empty, whatever the stopped connection still delivers.
C33_StoppedStaysEmpty ==
  (sessionPromise = 0 /\ nextSession > 1)
    => /\ detectedObjects = <<>>
       /\ selectedObject = "null"
       /\ transcription = <<>>
       /\ groundingChunks = <<>>

\* ----------------------------------------------------------------------- C34
\* C34: when the catch block has run for a connection attempt that failed,
\* the handle of that attempt is no longer held and the output context made
\* for it is released.
C34_FailedStartReleased ==
  Ran("catch") =>
    /\ sessionPromise # trace[1][2]
    /\ outCtx[trace[1][2]] # "running"

\* ----------------------------------------------------------------------- C35
\* C35: the completion of a capture context's close leaves a running capture
\* context reachable through inputAudioContextRef, so that the stop of its
\* session closes it.
C35_CloseKeepsLaterContext ==
  [][\A c \in Sessions :
       (trace'[1][1] = "inputContextClosed"
          /\ inCtx[c] = "running" /\ inputAudioContextRef = c)
         => inputAudioContextRef' = c]_vars

\* ----------------------------------------------------------------------- C36
\* C36: whenever the session is marked active, a capture tap is connected or
\* a frame timer runs, the status is LISTENING; in every other status nothing
\* captures or sends.
C36_ActiveOnlyListening ==
  (isSessionActiveRef \/ tapConnected # {} \/ timers # {})
    => status = "LISTENING"

\* ----------------------------------------------------------------------- C37
\* C37: the onClose of a connection that had opened and on which onError was
\* delivered finds the session inactive: it leaves the status as onError set
\* it and releases nothing a second time.
C37_CloseAfterErrorIdle ==
  [][(trace'[1][1] = "onClose" /\ trace'[1][3] = "failing"
        /\ inCtx[trace'[1][2]] # "none")
       => /\ ~trace'[1][4]
          /\ status' = status
          /\ Len(trace') = 1]_vars

\* The same for an onClose that is the very next callback after the onError
\* of its connection.
C37_CloseRightAfterError ==
  [][(Ran("onError") /\ trace'[1][1] = "onClose" /\ trace'[1][2] = trace[1][2])
       => /\ ~trace'[1][4]
          /\ status' = status /\ status \in {"ERROR", "SELECT_KEY", "QUOTA_ERROR"}
          /\ Len(trace') = 1]_vars

\* ----------------------------------------------------------------------- C38
\* C38: the selection is null or one of the objects of the current detection
\* set.
C38_SelectionInSet ==
  selectedObject = "null" \/ selectedObject \in Range(detectedObjects)

\* ----------------------------------------------------------------------- C39
\* C39: the cleanup of an App that holds a media stream stops the tracks of
\* that stream and leaves no session active.
C39_UnmountReleases ==
  (Ran("unmount") /\ stream) =>
    /\ EventIdx(trace, {"track.stop"}) # {}
    /\ ~isSessionActiveRef
    /\ timers = {} /\ tapConnected = {}

=============================================================================
